---- MODULE Spec2Model ----
(***************************************************************************)
(* Control loop of Cores3_Arduino_Cloud.ino: touch dispatch (handleTouch), *)
(* settings menu (handleSettingsTouch), emissivity modal                   *)
(* (adjustEmissivity), temperature ingest and battery check (loop), and    *)
(* the settings store (Settings::load / Settings::save).                   *)
(*                                                                         *)
(* Number representation.                                                  *)
(*  - Temperatures, targets and tolerances are integers in hundredths of a *)
(*    degree, the sensor's native scale: 338.0 C is 33800.  Every sample   *)
(*    and setting used is a multiple of 0.5 degree, which float represents *)
(*    exactly, so the float comparisons of the code are exact here.        *)
(*  - Emissivity is a float32 in [0.5, 2): it is kept as the integer       *)
(*    value * 2^24 (one unit = one float32 ulp below 1.0), and += / -= of  *)
(*    the float step 0.01f is computed with float32 round-to-nearest-even. *)
(***************************************************************************)
EXTENDS Integers, Sequences, FiniteSets, TLC

VARIABLES
    settings,           \* Settings settings (line 131)
    store,              \* Preferences namespace "terpmeter": key -> {} (missing) or {value}
    state,              \* SystemState state (line 132)
    settingsMenu,       \* SettingsMenu settingsMenu (line 128)
    lastPressedButton,  \* handleTouch static: <<>> is nullptr, <<b>> the heap copy
    touchProcessed,     \* handleTouch static
    temperature,        \* Arduino Cloud property (line 393)
    displayBrightness,  \* last value given to CoreS3.Display.setBrightness
    pc,                 \* "loop" | "adjusting" | "waiting" | "restart" | "panic"
    modal,              \* locals of adjustEmissivity while it runs
    sample,             \* touch sample polled by the current top-level tick
    armed,              \* lastPressedButton as it was when that tick began
    tones,              \* CoreS3.Speaker.tone requests of the last step
    saves,              \* number of Settings::save calls of the last step
    hist,               \* the last ingests: one record per readTemperature of loop()
    ops,                \* menu activations and modal +/- steps so far (bounded)
    last                \* the step taken last

vars == <<settings, store, state, settingsMenu, lastPressedButton, touchProcessed,
          temperature, displayBrightness, pc, modal, sample, armed, tones, saves,
          hist, ops, last>>

----------------------------------------------------------------------------
(* Config (lines 16-66) and the display geometry *)

HEADER_HEIGHT == 30
FOOTER_HEIGHT == 40
MARGIN == 10
BUTTON_HEIGHT == 50
\* CoreS3.Display.width() / height() after setRotation(1)
DisplayWidth == 320
DisplayHeight == 240

\* hundredths of a degree Celsius
MIN_TEMP_C == -2000
MAX_TEMP_C == 40000
DEFAULT_TARGET_C == 18000
DEFAULT_TOLERANCE_C == 500
DEFAULT_BRIGHTNESS == 128
\* float32 0.87f = 14596178 * 2^-24
DEFAULT_EMISSIVITY == 14596178

\* adjustEmissivity constants (lines 815-817), float32
\* 0.65f = 10905190 * 2^-24, 1.00f = 2^24 * 2^-24, 0.01f = 10737418 * 2^-30
EMISSIVITY_MIN == 10905190
EMISSIVITY_MAX == 16777216
EMISSIVITY_STEP30 == 10737418

numItems == 6

\* one degree, the significance threshold of loop() (line 375), in hundredths
ONE_DEGREE == 100
\* isValidTemperature's band (line 226), in the sensor's hundredths
VALID_LOW == -2000
VALID_HIGH == 20000
\* tolerance wrap (line 785): 20.0 and 1.0 in hundredths
TOLERANCE_MAX == 2000
TOLERANCE_RESET == 100

----------------------------------------------------------------------------
(* C arithmetic *)

Abs(a) == IF a < 0 THEN -a ELSE a

\* C integer division and remainder truncate toward zero
CDiv(a, b) == IF a >= 0 THEN a \div b ELSE -((-a) \div b)
CRem(a, b) == a - b * CDiv(a, b)

\* float32 rounding (nearest, ties to even) of a positive value given in units
\* of 2^-30, for values in [0.5, 2); the result is in units of 2^-24
RoundF32(v30) ==
    LET q == IF v30 < 1073741824 THEN 64 ELSE 128
        r == v30 % q
        down == v30 - r
        up == down + q
        pick == IF 2 * r < q THEN down
                ELSE IF 2 * r > q THEN up
                ELSE IF (down \div q) % 2 = 0 THEN down ELSE up
    IN pick \div 64

\* tempEmissivity += EMISSIVITY_STEP and tempEmissivity -= EMISSIVITY_STEP
FAddStep(e) == RoundF32(e * 64 + EMISSIVITY_STEP30)
FSubStep(e) == RoundF32(e * 64 - EMISSIVITY_STEP30)

----------------------------------------------------------------------------
(* Settings (lines 69-98) *)

DefaultSettings ==
    [useCelsius |-> TRUE, soundEnabled |-> TRUE, brightness |-> DEFAULT_BRIGHTNESS,
     emissivity |-> DEFAULT_EMISSIVITY, targetTemp |-> DEFAULT_TARGET_C,
     tempTolerance |-> DEFAULT_TOLERANCE_C]

\* preferences.getBool / getInt / getFloat(key, default)
PrefGet(st, key, default) ==
    IF st[key] = {} THEN default ELSE CHOOSE v \in st[key] : TRUE

\* Load whose missing brightness reads as 0
Load_ZeroBrightness(st) ==
    [useCelsius |-> PrefGet(st, "useCelsius", TRUE),
     soundEnabled |-> PrefGet(st, "soundEnabled", TRUE),
     brightness |-> PrefGet(st, "brightness", 0),
     emissivity |-> PrefGet(st, "emissivity", DEFAULT_EMISSIVITY),
     targetTemp |-> PrefGet(st, "targetTemp", DEFAULT_TARGET_C),
     tempTolerance |-> PrefGet(st, "tolerance", DEFAULT_TOLERANCE_C)]

\* Settings::load
Load(st) ==
    [useCelsius |-> PrefGet(st, "useCelsius", TRUE),
     soundEnabled |-> PrefGet(st, "soundEnabled", TRUE),
     brightness |-> PrefGet(st, "brightness", DEFAULT_BRIGHTNESS),
     emissivity |-> PrefGet(st, "emissivity", DEFAULT_EMISSIVITY),
     targetTemp |-> PrefGet(st, "targetTemp", DEFAULT_TARGET_C),
     tempTolerance |-> PrefGet(st, "tolerance", DEFAULT_TOLERANCE_C)]

\* Settings::save
Save(s) ==
    [useCelsius |-> {s.useCelsius},
     soundEnabled |-> {s.soundEnabled},
     brightness |-> {s.brightness},
     emissivity |-> {s.emissivity},
     targetTemp |-> {s.targetTemp},
     tolerance |-> {s.tempTolerance}]

EmptyStore ==
    [useCelsius |-> {}, soundEnabled |-> {}, brightness |-> {}, emissivity |-> {},
     targetTemp |-> {}, tolerance |-> {}]

----------------------------------------------------------------------------
(* Button (lines 138-208) and the footer layout (lines 431-461) *)

footerY == DisplayHeight - FOOTER_HEIGHT
buttonWidth == CDiv(DisplayWidth - 3 * MARGIN, 2)
footerButtonY == footerY + CDiv(FOOTER_HEIGHT - BUTTON_HEIGHT, 2)

NewButton(x, y, w, h, label) ==
    [x |-> x, y |-> y, width |-> w, height |-> h, label |-> label,
     enabled |-> TRUE, pressed |-> FALSE]

\* Button::contains
Contains(b, tx, ty) ==
    /\ b.enabled
    /\ tx >= b.x /\ tx < b.x + b.width
    /\ ty >= b.y /\ ty < b.y + b.height

monitorBtn(isMonitoring) ==
    NewButton(MARGIN, footerButtonY, buttonWidth, BUTTON_HEIGHT - 4,
              IF isMonitoring THEN "Stop" ELSE "Monitor")

settingsBtn(isOpen) ==
    NewButton(DisplayWidth - buttonWidth - MARGIN, footerButtonY, buttonWidth,
              BUTTON_HEIGHT - 4, IF isOpen THEN "Back" ELSE "Settings")

\* playSound without its own soundEnabled guard
PlaySound_Unguarded(s, success) ==
    <<[hz |-> IF success THEN 1000 ELSE 500, snd |-> s.soundEnabled]>>

\* playSound: the tones it requests of the beeper; each tone records the
\* soundEnabled flag in force when CoreS3.Speaker.tone is called
PlaySound(s, success) ==
    IF ~s.soundEnabled THEN <<>>
    ELSE <<[hz |-> IF success THEN 1000 ELSE 500, snd |-> s.soundEnabled]>>

\* Button::setPressed(true) on a fresh button: the cue it plays
SetPressedCue(s) == IF s.soundEnabled THEN PlaySound(s, TRUE) ELSE <<>>

----------------------------------------------------------------------------
(* The program's data as one record m, so that the handlers compose:       *)
(* settings, store, state, menu (settingsMenu), lpb (lastPressedButton),   *)
(* tp (touchProcessed), temperature, bright (display brightness), tones    *)
(* and saves (effects requested so far in this step), enter (the handler   *)
(* has called adjustEmissivity and is blocked in it).                      *)

Machine ==
    [settings |-> settings, store |-> store, state |-> state, menu |-> settingsMenu,
     lpb |-> lastPressedButton, tp |-> touchProcessed, temperature |-> temperature,
     bright |-> displayBrightness, tones |-> <<>>, saves |-> 0, enter |-> FALSE]

\* settings.save() called by a handler
DoSave(m) == [m EXCEPT !.store = Save(m.settings), !.saves = @ + 1]

\* playSound(success) called by a handler
DoSound(m, success) == [m EXCEPT !.tones = @ \o PlaySound(m.settings, success)]

\* updateStatus (lines 539-544)
UpdateStatus(st, message, color) ==
    IF message # st.statusMessage \/ color # st.statusColor
    THEN [st EXCEPT !.statusMessage = message, !.statusColor = color]
    ELSE st

----------------------------------------------------------------------------
(* handleSettingsTouch (lines 747-811) *)

menuY == HEADER_HEIGHT + MARGIN
menuHeight == DisplayHeight - HEADER_HEIGHT - FOOTER_HEIGHT - 2 * MARGIN
itemHeight == CDiv(menuHeight, numItems)

\* lines 753-755: the touch is within the menu area
InMenuArea(x, y) ==
    /\ x >= MARGIN /\ x <= DisplayWidth - MARGIN
    /\ y >= menuY /\ y <= menuY + menuHeight

\* line 758
TouchedItem(y) == CDiv(y - menuY, itemHeight)

\* HitsItem without the upper bound on the item index
HitsItem_NoUpperCheck(x, y) ==
    /\ InMenuArea(x, y)
    /\ TouchedItem(y) >= 0

\* lines 753-759: the touch selects a menu item
HitsItem(x, y) ==
    /\ InMenuArea(x, y)
    /\ TouchedItem(y) >= 0 /\ TouchedItem(y) < numItems

\* CoreS3.Display.setBrightness(uint8_t): the int argument converted to uint8_t
SetBrightness(b) == b % 256

\* AdjustBrightness in steps of 32
AdjustBrightness_Step32(b) == CRem(b + 32, 256)

\* case 2 (line 772)
AdjustBrightness(b) == CRem(b + 64, 256)

\* AdjustTarget that wraps already when the stepped value reaches the maximum
AdjustTarget_WrapAtMax(s) ==
    LET t == s.targetTemp + (IF s.useCelsius THEN 500 ELSE 1000)
    IN IF t >= MAX_TEMP_C THEN MIN_TEMP_C ELSE t

\* case 4 (lines 779-781)
AdjustTarget(s) ==
    LET t == s.targetTemp + (IF s.useCelsius THEN 500 ELSE 1000)
    IN IF t > MAX_TEMP_C THEN MIN_TEMP_C ELSE t

\* AdjustTolerance that pins the value at the maximum instead of resetting it
AdjustTolerance_Pins(s) ==
    LET t == s.tempTolerance + (IF s.useCelsius THEN 50 ELSE 100)
    IN IF t > TOLERANCE_MAX THEN TOLERANCE_MAX ELSE t

\* case 5 (lines 784-785)
AdjustTolerance(s) ==
    LET t == s.tempTolerance + (IF s.useCelsius THEN 50 ELSE 100)
    IN IF t > TOLERANCE_MAX THEN TOLERANCE_RESET ELSE t

\* the switch of lines 763-787, but for case 3, which blocks in adjustEmissivity
ApplyItem(item, m) ==
    CASE item = 0 -> [m EXCEPT !.settings.useCelsius = ~@]
      [] item = 1 ->
            LET m1 == [m EXCEPT !.settings.soundEnabled = ~@]
            IN IF m1.settings.soundEnabled THEN DoSound(m1, TRUE) ELSE m1
      [] item = 2 ->
            LET b == AdjustBrightness(m.settings.brightness)
            IN [m EXCEPT !.settings.brightness = b, !.bright = SetBrightness(b)]
      [] item = 4 -> [m EXCEPT !.settings.targetTemp = AdjustTarget(m.settings)]
      [] item = 5 -> [m EXCEPT !.settings.tempTolerance = AdjustTolerance(m.settings)]
      [] OTHER -> m

\* ItemDone that cues but does not save
ItemDone_NoSave(m) ==
    IF m.settings.soundEnabled THEN DoSound(m, TRUE) ELSE m

\* lines 789-790, after the switch: save, then the confirmation cue
ItemDone(m) ==
    LET m1 == DoSave(m)
    IN IF m1.settings.soundEnabled THEN DoSound(m1, TRUE) ELSE m1

\* BackCheck that already fires on the lower edge of the menu area
BackCheck_LowerEdge(y, m) ==
    IF y >= menuY + menuHeight
    THEN DoSave([m EXCEPT !.menu.isOpen = FALSE])
    ELSE m

\* lines 799-807: the back check at the end of handleSettingsTouch
BackCheck(y, m) ==
    IF y > DisplayHeight - FOOTER_HEIGHT
    THEN DoSave([m EXCEPT !.menu.isOpen = FALSE])
    ELSE m

HandleSettingsTouch(x, y, m) ==
    IF HitsItem(x, y)
    THEN LET item == TouchedItem(y)
             m0 == [m EXCEPT !.menu.selectedItem = item]
         IN IF item = 3 THEN [m0 EXCEPT !.enter = TRUE]
            ELSE BackCheck(y, ItemDone(ApplyItem(item, m0)))
    ELSE BackCheck(y, m)

----------------------------------------------------------------------------
(* handleTouch (lines 419-504) *)

\* PressedFooterButton with the Monitor button live in the settings menu too
PressedFooterButton_MonitorInMenu(x, y, m) ==
    IF y < footerY THEN <<>>
    ELSE IF x >= MARGIN /\ x < MARGIN + buttonWidth
         THEN <<monitorBtn(m.state.isMonitoring)>>
    ELSE IF x >= DisplayWidth - buttonWidth - MARGIN /\ x < DisplayWidth - MARGIN
         THEN <<settingsBtn(m.menu.isOpen)>>
    ELSE <<>>

\* lines 436-438 and 451-452: the footer button a press at (x, y) creates
PressedFooterButton(x, y, m) ==
    IF y < footerY THEN <<>>
    ELSE IF ~m.menu.isOpen /\ x >= MARGIN /\ x < MARGIN + buttonWidth
         THEN <<monitorBtn(m.state.isMonitoring)>>
    ELSE IF x >= DisplayWidth - buttonWidth - MARGIN /\ x < DisplayWidth - MARGIN
         THEN <<settingsBtn(m.menu.isOpen)>>
    ELSE <<>>

\* HandlePress with the footer button acting at once, on the press
HandlePress_ActsOnPress(x, y, m) ==
    LET m0 == [m EXCEPT !.tp = TRUE]
        hit == PressedFooterButton(x, y, m0)
    IN IF y >= footerY
       THEN IF hit # <<>>
            THEN [m0 EXCEPT !.state.isMonitoring = IF hit[1].label \in {"Monitor", "Stop"}
                                                    THEN ~@ ELSE @,
                            !.lpb = <<[hit[1] EXCEPT !.pressed = TRUE]>>,
                            !.tones = @ \o SetPressedCue(m0.settings)]
            ELSE m0
       ELSE IF m0.menu.isOpen THEN HandleSettingsTouch(x, y, m0)
       ELSE m0

\* lines 427-467: a new press, accepted
HandlePress(x, y, m) ==
    LET m0 == [m EXCEPT !.tp = TRUE]
        hit == PressedFooterButton(x, y, m0)
    IN IF y >= footerY
       THEN IF hit # <<>>
            THEN [m0 EXCEPT !.lpb = <<[hit[1] EXCEPT !.pressed = TRUE]>>,
                            !.tones = @ \o SetPressedCue(m0.settings)]
            ELSE m0
       ELSE IF m0.menu.isOpen THEN HandleSettingsTouch(x, y, m0)
       ELSE m0

\* ReleaseConfirms without the bounds check
ReleaseConfirms_Anywhere(b, x, y) == b.enabled

\* line 473: the release confirms the armed button
ReleaseConfirms(b, x, y) == Contains(b, x, y)

\* ButtonAction whose Monitor/Stop button also resets the status line
ButtonAction_ResetsStatus(b, m) ==
    IF b.label = "Monitor" \/ b.label = "Stop"
    THEN [m EXCEPT !.state.isMonitoring = ~@,
                   !.state.statusMessage = "", !.state.statusColor = "COLOR_TEXT"]
    ELSE IF b.label = "Settings" \/ b.label = "Back"
    THEN [m EXCEPT !.menu.isOpen = ~@,
                   !.state.currentScreen = IF ~m.menu.isOpen THEN "SETTINGS" ELSE "MAIN"]
    ELSE m

\* ButtonAction whose Settings/Back button only ever opens the menu
ButtonAction_OpensOnly(b, m) ==
    IF b.label = "Monitor" \/ b.label = "Stop"
    THEN [m EXCEPT !.state.isMonitoring = ~@]
    ELSE IF b.label = "Settings" \/ b.label = "Back"
    THEN [m EXCEPT !.menu.isOpen = TRUE, !.state.currentScreen = "SETTINGS"]
    ELSE m

\* lines 473-485: what a confirmed release does
ButtonAction(b, m) ==
    IF b.label = "Monitor" \/ b.label = "Stop"
    THEN [m EXCEPT !.state.isMonitoring = ~@]
    ELSE IF b.label = "Settings" \/ b.label = "Back"
    THEN [m EXCEPT !.menu.isOpen = ~@,
                   !.state.currentScreen = IF ~m.menu.isOpen THEN "SETTINGS" ELSE "MAIN"]
    ELSE m

\* HandleRelease that acts but keeps the armed copy
HandleRelease_KeepsCopy(x, y, m) ==
    LET b == m.lpb[1]
        m0 == [m EXCEPT !.tp = FALSE]
    IN IF ReleaseConfirms(b, x, y) THEN ButtonAction(b, m0) ELSE m0

\* lines 469-494: a release while a button is armed
HandleRelease(x, y, m) ==
    LET b == m.lpb[1]
        m0 == [m EXCEPT !.tp = FALSE]
        m1 == IF ReleaseConfirms(b, x, y) THEN ButtonAction(b, m0) ELSE m0
    IN [m1 EXCEPT !.lpb = <<>>]

\* HandleNoTouch that forgets to release the armed button
HandleNoTouch_KeepsButton(m) == [m EXCEPT !.tp = FALSE]

\* lines 495-503: no touch
HandleNoTouch(m) == [m EXCEPT !.tp = FALSE, !.lpb = <<>>]

\* HandleTouch that accepts a press whether or not one is being processed
HandleTouch_RepeatPress(t, m) ==
    IF t.kind = "none" THEN HandleNoTouch(m)
    ELSE IF t.kind = "pressed" THEN HandlePress(t.x, t.y, m)
    ELSE IF t.kind = "released" /\ m.lpb # <<>> /\ m.tp THEN HandleRelease(t.x, t.y, m)
    ELSE m

\* t is the touch sample: kind is "none" (getCount() = 0), "pressed"
\* (wasPressed), "released" (wasReleased) or "held" (neither)
HandleTouch(t, m) ==
    IF t.kind = "none" THEN HandleNoTouch(m)
    ELSE IF t.kind = "pressed" /\ ~m.tp THEN HandlePress(t.x, t.y, m)
    ELSE IF t.kind = "released" /\ m.lpb # <<>> /\ m.tp THEN HandleRelease(t.x, t.y, m)
    ELSE m

----------------------------------------------------------------------------
(* loop(): temperature ingest (lines 360-399) and battery check (401-405) *)

\* isValidTemperature (lines 224-227), on the sensor's hundredths
isValidTemperature(temp) == temp > VALID_LOW /\ temp < VALID_HIGH

\* readTemperature (lines 570-574): rawTemp / 100.0 degrees, kept in hundredths
readTemperature(rawTemp) == rawTemp

\* IsSignificant with a threshold of half a degree
IsSignificant_HalfDegree(temp, currentTemp) ==
    2 * Abs(temp - currentTemp) >= ONE_DEGREE \/ currentTemp = 0

\* line 375
IsSignificant(temp, currentTemp) ==
    Abs(temp - currentTemp) >= ONE_DEGREE \/ currentTemp = 0

\* OutOfRange without the abs
OutOfRange_Signed(temp, s) == temp - s.targetTemp > s.tempTolerance

\* OutOfRange that counts the boundary as out of range
OutOfRange_Inclusive(temp, s) == Abs(temp - s.targetTemp) >= s.tempTolerance

\* line 381
OutOfRange(temp, s) == Abs(temp - s.targetTemp) > s.tempTolerance

\* line 392: (temp * 9.0 / 5.0) + 32.0, in hundredths of a degree Fahrenheit
ToFahrenheit(temp) == CDiv(temp * 9, 5) + 3200

\* lines 379-389
MonitorStatus(temp, m) ==
    IF ~m.state.isMonitoring THEN m
    ELSE IF OutOfRange(temp, m.settings)
    THEN LET m1 == [m EXCEPT !.state = UpdateStatus(@, "Temperature Out of Range!",
                                                    "COLOR_WARNING")]
         IN IF m1.settings.soundEnabled THEN DoSound(m1, FALSE) ELSE m1
    ELSE [m EXCEPT !.state = UpdateStatus(@, "Monitoring", "COLOR_SUCCESS")]

\* Ingest that forwards the telemetry value only while monitoring
Ingest_TelemetryIfMonitoring(rawTemp, m) ==
    LET temp == readTemperature(rawTemp)
    IN IF IsSignificant(temp, m.state.currentTemp)
       THEN LET m1 == [m EXCEPT !.state.currentTemp = temp]
                m2 == MonitorStatus(temp, m1)
            IN IF m.state.isMonitoring
               THEN [m2 EXCEPT !.temperature = ToFahrenheit(temp)] ELSE m2
       ELSE m

\* lines 361 and 375-399
Ingest(rawTemp, m) ==
    LET temp == readTemperature(rawTemp)
    IN IF IsSignificant(temp, m.state.currentTemp)
       THEN LET m1 == [m EXCEPT !.state.currentTemp = temp]
                m2 == MonitorStatus(temp, m1)
            IN [m2 EXCEPT !.temperature = ToFahrenheit(temp)]
       ELSE m

\* what one ingest did, for the record kept in hist
IngestRecord(rawTemp, m) ==
    LET temp == readTemperature(rawTemp)
        sig == IsSignificant(temp, m.state.currentTemp)
        after == Ingest(rawTemp, m)
    IN [raw |-> rawTemp,
        pre |-> m.state.currentTemp,
        cur |-> after.state.currentTemp,
        mon |-> m.state.isMonitoring,
        tgt |-> m.settings.targetTemp,
        tol |-> m.settings.tempTolerance,
        celsius |-> m.settings.useCelsius,
        msgBefore |-> m.state.statusMessage,
        colBefore |-> m.state.statusColor,
        msg |-> after.state.statusMessage,
        col |-> after.state.statusColor,
        upd |-> sig /\ m.state.isMonitoring,
        telBefore |-> m.temperature,
        tel |-> after.temperature,
        push |-> sig,
        draw |-> sig /\ ~m.menu.isOpen]

\* checkBattery (lines 525-537); batt.due: the check interval has elapsed
CheckBattery(batt, m) ==
    IF ~batt.due THEN m
    ELSE IF batt.level <= 10 /\ ~batt.charging
    THEN IF ~m.state.lowBatteryWarning
         THEN [m EXCEPT !.state = [UpdateStatus(@, "Low Battery!", "COLOR_WARNING")
                                    EXCEPT !.lowBatteryWarning = TRUE]]
         ELSE m
    ELSE [m EXCEPT !.state.lowBatteryWarning = FALSE]

\* the rest of loop() after handleTouch returns
AfterTouch(rawTemp, batt, m) == CheckBattery(batt, Ingest(rawTemp, m))

----------------------------------------------------------------------------
(* adjustEmissivity (lines 813-948) *)

upBtn == NewButton(220, 60, 80, 60, "+")
downBtn == NewButton(220, 140, 80, 60, "-")
doneBtn == NewButton(10, 180, 100, 50, "Done")
confirmBtn == NewButton(10, 190, 145, 50, "Restart")
cancelBtn == NewButton(165, 190, 145, 50, "Cancel")

\* lines 823-824
ClampEmissivity(e) ==
    IF e < EMISSIVITY_MIN THEN EMISSIVITY_MIN
    ELSE IF e > EMISSIVITY_MAX THEN EMISSIVITY_MAX
    ELSE e

\* lines 819-826: the locals on entry; y is the touch that selected the item and
\* stored the persisted emissivity as load() would read it at that moment
OpenModal(m, y) ==
    [orig |-> m.settings.emissivity,
     temp |-> ClampEmissivity(m.settings.emissivity),
     changed |-> FALSE,
     y |-> y,
     stored |-> PrefGet(m.store, "emissivity", DEFAULT_EMISSIVITY)]

NoModal == [orig |-> 0, temp |-> 0, changed |-> FALSE, y |-> 0, stored |-> 0]

\* lines 875-880: "+" pressed
PressUp(md) ==
    IF md.temp < EMISSIVITY_MAX
    THEN LET e == FAddStep(md.temp)
             e1 == IF e > EMISSIVITY_MAX THEN EMISSIVITY_MAX ELSE e
         IN [md EXCEPT !.temp = e1, !.changed = (e1 # md.orig)]
    ELSE md

\* lines 882-887: "-" pressed
PressDown(md) ==
    IF md.temp > EMISSIVITY_MIN
    THEN LET e == FSubStep(md.temp)
             e1 == IF e < EMISSIVITY_MIN THEN EMISSIVITY_MIN ELSE e
         IN [md EXCEPT !.temp = e1, !.changed = (e1 # md.orig)]
    ELSE md

\* line 898: the confirmation screen is shown
NeedsConfirmation(md) == md.changed

\* ConfirmRestart that saves before it takes the pending value over
ConfirmRestart_SaveFirst(m, md) == [DoSave(m) EXCEPT !.settings.emissivity = md.temp]

\* lines 928-929: Restart confirmed
ConfirmRestart(m, md) == DoSave([m EXCEPT !.settings.emissivity = md.temp])

\* ReturnFromModal that lets the pending value into Settings
ReturnFromModal_KeepsPending(m, md) ==
    BackCheck(md.y, ItemDone([m EXCEPT !.settings.emissivity = md.temp]))

\* lines 944-947 and the return into handleSettingsTouch (lines 788-807):
\* adjustEmissivity redraws and returns, the menu handler saves and cues
ReturnFromModal(m, md) == BackCheck(md.y, ItemDone(m))

----------------------------------------------------------------------------
(* State *)

InitialState ==
    [isMonitoring |-> FALSE, currentTemp |-> 0, lowBatteryWarning |-> FALSE,
     statusMessage |-> "", statusColor |-> "COLOR_TEXT", currentScreen |-> "MAIN"]

InitialMenu == [isOpen |-> FALSE, selectedItem |-> 0]

NoTouch == [kind |-> "none", x |-> 0, y |-> 0]

\* the last depth entries of h with e appended
Remember(h, e, depth) ==
    LET all == Append(h, e)
    IN IF Len(all) <= depth THEN all
       ELSE SubSeq(all, Len(all) - depth + 1, Len(all))

\* the state when setup() (lines 230-345) has run on the store st
InitOver(stores) ==
    /\ store \in stores
    /\ settings = Load(store)
    /\ state = InitialState
    /\ settingsMenu = InitialMenu
    /\ lastPressedButton = <<>>
    /\ touchProcessed = FALSE
    /\ temperature = 0
    /\ displayBrightness = SetBrightness(settings.brightness)
    /\ pc = "loop"
    /\ modal = NoModal
    /\ sample = NoTouch
    /\ armed = <<>>
    /\ tones = <<>>
    /\ saves = 0
    /\ hist = <<>>
    /\ ops = 0
    /\ last = "setup"

Commit(m) ==
    /\ settings' = m.settings
    /\ store' = m.store
    /\ state' = m.state
    /\ settingsMenu' = m.menu
    /\ lastPressedButton' = m.lpb
    /\ touchProcessed' = m.tp
    /\ temperature' = m.temperature
    /\ displayBrightness' = m.bright
    /\ tones' = m.tones
    /\ saves' = m.saves

\* the press activates a menu item (counted in ops)
Activates(t, m) ==
    /\ t.kind = "pressed" /\ ~m.tp
    /\ t.y < footerY /\ m.menu.isOpen
    /\ HitsItem(t.x, t.y)

----------------------------------------------------------------------------
(* Actions *)

\* one iteration of loop() (lines 348-409) whose handleTouch returns
Loop(t, rawTemp, batt, depth, limit) ==
    /\ pc = "loop"
    /\ Activates(t, Machine) => ops < limit
    /\ LET m1 == HandleTouch(t, Machine)
           m2 == AfterTouch(rawTemp, batt, m1)
       IN /\ ~m1.enter
          /\ Commit(m2)
          /\ hist' = Remember(hist, IngestRecord(rawTemp, m1), depth)
    /\ ops' = IF Activates(t, Machine) THEN ops + 1 ELSE ops
    /\ sample' = t
    /\ armed' = lastPressedButton
    /\ modal' = NoModal
    /\ UNCHANGED pc
    /\ last' = "loop"

\* LoopEnter whose iteration reads the sensor before the modal blocks it
LoopEnter_Ingests(t, limit) ==
    /\ pc = "loop"
    /\ ops < limit
    /\ LET m1 == HandleTouch(t, Machine)
       IN /\ m1.enter
          /\ Commit(Ingest(0, m1))
          /\ modal' = OpenModal(m1, t.y)
    /\ pc' = "adjusting"
    /\ ops' = ops + 1
    /\ sample' = t
    /\ armed' = lastPressedButton
    /\ UNCHANGED hist
    /\ last' = "enter"

\* an iteration of loop() whose handleTouch enters adjustEmissivity and blocks
LoopEnter(t, limit) ==
    /\ pc = "loop"
    /\ ops < limit
    /\ LET m1 == HandleTouch(t, Machine)
       IN /\ m1.enter
          /\ Commit(m1)
          /\ modal' = OpenModal(m1, t.y)
    /\ pc' = "adjusting"
    /\ ops' = ops + 1
    /\ sample' = t
    /\ armed' = lastPressedButton
    /\ UNCHANGED hist
    /\ last' = "enter"

\* one poll of the modal's loop (lines 855-895) that sees a press on + or -
AdjustStep(t, limit) ==
    /\ pc = "adjusting"
    /\ t.kind = "pressed"
    /\ \/ Contains(upBtn, t.x, t.y) /\ modal' = PressUp(modal)
       \/ /\ ~Contains(upBtn, t.x, t.y) /\ Contains(downBtn, t.x, t.y)
          /\ modal' = PressDown(modal)
    /\ modal' # modal => ops < limit
    /\ ops' = IF modal' # modal THEN ops + 1 ELSE ops
    /\ tones' = IF modal' # modal THEN PlaySound(settings, TRUE) ELSE <<>>
    /\ saves' = 0
    /\ UNCHANGED <<settings, store, state, settingsMenu, lastPressedButton,
                   touchProcessed, temperature, displayBrightness, pc, sample,
                   armed, hist>>
    /\ last' = "step"

\* the poll that sees a press on Done (lines 888-898), the value was changed:
\* the confirmation screen
AdjustDoneConfirm(t) ==
    /\ pc = "adjusting"
    /\ t.kind = "pressed"
    /\ ~Contains(upBtn, t.x, t.y) /\ ~Contains(downBtn, t.x, t.y)
    /\ Contains(doneBtn, t.x, t.y)
    /\ NeedsConfirmation(modal)
    /\ pc' = "waiting"
    /\ tones' = PlaySound(settings, TRUE)
    /\ saves' = 0
    /\ UNCHANGED <<settings, store, state, settingsMenu, lastPressedButton,
                   touchProcessed, temperature, displayBrightness, modal, sample,
                   armed, hist, ops>>
    /\ last' = "done-confirm"

\* the poll that sees a press on Done, nothing to confirm: adjustEmissivity
\* returns and the iteration of loop() that called it runs to its end
AdjustDoneReturn(t, rawTemp, batt, depth) ==
    /\ pc = "adjusting"
    /\ t.kind = "pressed"
    /\ ~Contains(upBtn, t.x, t.y) /\ ~Contains(downBtn, t.x, t.y)
    /\ Contains(doneBtn, t.x, t.y)
    /\ ~NeedsConfirmation(modal)
    /\ LET m0 == DoSound(Machine, TRUE)
           m1 == ReturnFromModal(m0, modal)
           m2 == AfterTouch(rawTemp, batt, m1)
       IN /\ Commit(m2)
          /\ hist' = Remember(hist, IngestRecord(rawTemp, m1), depth)
    /\ pc' = "loop"
    /\ UNCHANGED <<modal, sample, armed, ops>>
    /\ last' = "done-return"

\* the poll of the confirmation loop (lines 921-941) that sees Restart pressed:
\* the new emissivity is saved and ESP.restart() ends the run
WaitRestart(t) ==
    /\ pc = "waiting"
    /\ t.kind = "pressed"
    /\ Contains(confirmBtn, t.x, t.y)
    /\ Commit(DoSound(ConfirmRestart(Machine, modal), TRUE))
    /\ pc' = "restart"
    /\ UNCHANGED <<modal, sample, armed, hist, ops>>
    /\ last' = "restart"

\* the poll of the confirmation loop that sees Cancel pressed
WaitCancel(t, rawTemp, batt, depth) ==
    /\ pc = "waiting"
    /\ t.kind = "pressed"
    /\ ~Contains(confirmBtn, t.x, t.y)
    /\ Contains(cancelBtn, t.x, t.y)
    /\ LET m0 == DoSound(Machine, TRUE)
           m1 == ReturnFromModal(m0, modal)
           m2 == AfterTouch(rawTemp, batt, m1)
       IN /\ Commit(m2)
          /\ hist' = Remember(hist, IngestRecord(rawTemp, m1), depth)
    /\ pc' = "loop"
    /\ UNCHANGED <<modal, sample, armed, ops>>
    /\ last' = "cancel"

\* the task watchdog armed in setup() (lines 243-244) is fed only by loop()
\* (line 350): 30 s inside either modal loop end in a panic reset
Watchdog ==
    /\ pc \in {"adjusting", "waiting"}
    /\ pc' = "panic"
    /\ tones' = <<>>
    /\ saves' = 0
    /\ UNCHANGED <<settings, store, state, settingsMenu, lastPressedButton,
                   touchProcessed, temperature, displayBrightness, modal, sample,
                   armed, hist, ops>>
    /\ last' = "watchdog"

\* the next run: setup() (lines 230-345) on the store the last run left
Setup ==
    /\ pc \in {"restart", "panic"}
    /\ store' = store
    /\ settings' = Load(store)
    /\ state' = InitialState
    /\ settingsMenu' = InitialMenu
    /\ lastPressedButton' = <<>>
    /\ touchProcessed' = FALSE
    /\ temperature' = 0
    /\ displayBrightness' = SetBrightness(Load(store).brightness)
    /\ pc' = "loop"
    /\ modal' = NoModal
    /\ sample' = NoTouch
    /\ armed' = <<>>
    /\ tones' = <<>>
    /\ saves' = 0
    /\ hist' = <<>>
    /\ ops' = ops
    /\ last' = "setup"

----------------------------------------------------------------------------
(* Inputs and specifications *)

Touch(kind, p) == [kind |-> kind, x |-> p[1], y |-> p[2]]

\* Monitor/Stop (also Done and Restart), Settings/Back (also Cancel), the gap
\* between the footer buttons, and a point above the footer that is inside the
\* Monitor button's bounds
MonitorPoint == <<50, 220>>
SettingsPoint == <<200, 220>>
GapPoint == <<160, 220>>
RimPoint == <<50, 197>>
FooterPoints == {MonitorPoint, SettingsPoint, GapPoint, RimPoint}

\* one point per menu item and the lower edge of the menu area; in the modal
\* the points of items 1, 2 and 3 are on "+", those of items 4 and 5 and the
\* lower edge on "-"
ItemPoint(i) == <<250, menuY + i * itemHeight>>
MenuPoints == {ItemPoint(i) : i \in 0..numItems}

\* every kind of sample: presses and releases at the points, a held contact
\* at the first footer and menu points, and no touch
TouchesAt(points) ==
    {NoTouch} \cup {Touch(k, p) : k \in {"pressed", "released"}, p \in points}
      \cup {Touch("held", p) : p \in points \cap {MonitorPoint, ItemPoint(0)}}

Presses(points) == {Touch("pressed", p) : p \in points}

NoBattery == [due |-> FALSE, level |-> 100, charging |-> FALSE]
Batteries ==
    {NoBattery, [due |-> TRUE, level |-> 5, charging |-> FALSE],
     [due |-> TRUE, level |-> 80, charging |-> FALSE]}

WithTarget(st, target, tolerance) ==
    [st EXCEPT !.targetTemp = {target}, !.tolerance = {tolerance}]

WithEmissivity(st, e) == [st EXCEPT !.emissivity = {e}]

\* model bounds
MaxOps == 2
EmisOps == 4
BrightOps == 5
TargetOps == 46
ToleranceOps == 32
StoredOps == 2
TickOps == 2
MonitorDepth == 1
StatusDepth == 1
TempDepth == 2
ScenarioDepth == 3

\* touch dispatch and menu: every touch point, one sample
Next ==
    \/ \E t \in TouchesAt(FooterPoints \cup MenuPoints) :
          Loop(t, 2000, NoBattery, 0, MaxOps)
    \/ \E t \in Presses(MenuPoints) : LoopEnter(t, MaxOps)
    \/ \E t \in Presses(MenuPoints) : AdjustStep(t, MaxOps)
    \/ \E t \in Presses(FooterPoints) : AdjustDoneConfirm(t)
    \/ \E t \in Presses(FooterPoints) : AdjustDoneReturn(t, 2000, NoBattery, 0)
    \/ \E t \in Presses(FooterPoints) : WaitRestart(t)
    \/ \E t \in Presses(FooterPoints) : WaitCancel(t, 2000, NoBattery, 0)
    \/ Watchdog
    \/ Setup

Spec == InitOver({EmptyStore}) /\ [][Next]_vars

----------------------------------------------------------------------------
(* Claims on touch dispatch, checked under Spec *)

\* The active screen as the claims name it
ScreenOf(menu, st) == <<menu.isOpen, st.currentScreen>>

\* C4 as stated: in every tick whose touch sample is "pressed", no Settings
\* field, isMonitoring and the active screen are changed, and no menu item
\* action (the emissivity modal included) takes effect.
C4_PressChangesNothing ==
    [][(pc = "loop" /\ sample'.kind = "pressed") =>
          /\ settings' = settings
          /\ state'.isMonitoring = state.isMonitoring
          /\ ScreenOf(settingsMenu', state') = ScreenOf(settingsMenu, state)
          /\ pc' = "loop"]_vars

\* C4 amended: isMonitoring and the active screen change only in a tick whose
\* sample is "released" and never in a "pressed" tick; a Settings field changes
\* and the emissivity modal opens only in a tick whose sample is "pressed",
\* that hits a menu item while the menu is open, and every such accepted press
\* applies its item at once (the field of items 0, 1, 2, 4, 5 changes, item 3
\* opens the modal).
C4_MenuActsOnPress ==
    [][/\ (pc = "loop" /\ sample'.kind # "released") =>
             /\ state'.isMonitoring = state.isMonitoring
             /\ ScreenOf(settingsMenu', state') = ScreenOf(settingsMenu, state)
       /\ (settings' # settings) => sample'.kind = "pressed"
       /\ (pc = "loop" /\ (settings' # settings \/ pc' = "adjusting")) =>
             /\ settingsMenu.isOpen
             /\ HitsItem(sample'.x, sample'.y)
       /\ (pc = "loop" /\ sample'.kind = "pressed" /\ ~touchProcessed
            /\ settingsMenu.isOpen /\ sample'.y < footerY
            /\ HitsItem(sample'.x, sample'.y)) =>
             LET item == TouchedItem(sample'.y)
             IN /\ settingsMenu'.selectedItem = item
                /\ item = 0 => settings'.useCelsius # settings.useCelsius
                /\ item = 1 => settings'.soundEnabled # settings.soundEnabled
                /\ item = 2 => settings'.brightness # settings.brightness
                /\ item = 3 => pc' = "adjusting"
                /\ item = 4 => settings'.targetTemp # settings.targetTemp
                /\ item = 5 => settings'.tempTolerance # settings.tempTolerance]_vars

\* C4 witness: a tick whose sample was a press on the brightness item has
\* changed and saved the brightness
C4_Witness ==
    /\ last = "loop" /\ sample = Touch("pressed", ItemPoint(2))
    /\ saves = 1 /\ settings.brightness = 192 /\ store.brightness = {192}

\* C6: for every armed footer button and every "released" sample whose
\* coordinates lie outside that button's bounds, neither isMonitoring nor the
\* active screen changes, and the armed button is disarmed.
C6_ReleaseOutsideCancels ==
    [][(/\ pc = "loop" /\ lastPressedButton # <<>>
        /\ sample'.kind = "released"
        /\ ~Contains(lastPressedButton[1], sample'.x, sample'.y)) =>
          /\ state'.isMonitoring = state.isMonitoring
          /\ ScreenOf(settingsMenu', state') = ScreenOf(settingsMenu, state)
          /\ lastPressedButton' = <<>>
          /\ touchProcessed' = FALSE]_vars

\* C6 witness: the Monitor button was armed and the release came over the
\* Settings button
C6_Witness ==
    /\ last = "loop" /\ armed # <<>> /\ armed[1].label = "Monitor"
    /\ sample = Touch("released", SettingsPoint)
    /\ lastPressedButton = <<>>

\* C7: after any tick whose touch sample is "none" no button is armed
\* (lastPressedButton is null, touchProcessed is false), and that tick changes
\* neither isMonitoring, the active screen nor any Settings field.
C7_NoTouchDisarms ==
    [][(pc = "loop" /\ sample'.kind = "none") =>
          /\ lastPressedButton' = <<>>
          /\ touchProcessed' = FALSE
          /\ state'.isMonitoring = state.isMonitoring
          /\ ScreenOf(settingsMenu', state') = ScreenOf(settingsMenu, state)
          /\ settings' = settings]_vars

\* C7 witness: a button was armed when the "none" sample arrived
C7_Witness ==
    /\ last = "loop" /\ sample.kind = "none" /\ armed # <<>>
    /\ lastPressedButton = <<>> /\ ~touchProcessed

----------------------------------------------------------------------------
(* Temperature ingest: specifications and claims *)

\* -30 C (out of band), 0 C, 0.5 C, and 330 / 330.5 / 331 C
TempRaws == {-3000, 0, 50, 33000, 33050, 33100}
ScenarioRaws == {0, 33000, 33200, 34500}

MonitorTaps ==
    {NoTouch, Touch("pressed", MonitorPoint), Touch("released", MonitorPoint)}

\* a store holding the documented test target 338 C and tolerance 5 C
ScenarioStore == WithTarget(EmptyStore, 33800, 500)

NextTemp ==
    \E t \in MonitorTaps, r \in TempRaws : Loop(t, r, NoBattery, TempDepth, 0)

SpecTemp == InitOver({EmptyStore, ScenarioStore}) /\ [][NextTemp]_vars

NextScenario ==
    \E t \in MonitorTaps, r \in ScenarioRaws : Loop(t, r, NoBattery, ScenarioDepth, 0)

SpecScenario == InitOver({ScenarioStore}) /\ [][NextScenario]_vars

\* the k-th ingest counted from the most recent one (k = 0)
Ago(k) == hist[Len(hist) - k]

\* the sample is out of the valid band under isValidTemperature and under the
\* [-20, 400] C band of Config::Temperature alike
OutOfBand(raw) == ~isValidTemperature(raw) /\ (raw < MIN_TEMP_C \/ raw > MAX_TEMP_C)

\* C1: for every sensor sample whose converted value lies outside the valid
\* band, the tick that ingests it leaves currentTemp (the significance
\* baseline) unchanged and leaves statusMessage / statusColor unchanged.
C1_InvalidSampleRejected ==
    (Len(hist) >= 1 /\ OutOfBand(Ago(0).raw)) =>
        /\ Ago(0).cur = Ago(0).pre
        /\ Ago(0).msg = Ago(0).msgBefore
        /\ Ago(0).col = Ago(0).colBefore

\* C2 as stated: for all consecutive samples s1, s2 with |s1 - s2| < 1.0, the
\* tick that ingests s2 directly after the tick that ingested s1 changes
\* neither currentTemp nor the telemetry property and triggers no temperature
\* redraw, for every s1.
C2_CloseSamplesDropped ==
    (Len(hist) >= 2 /\ Abs(Ago(0).raw - Ago(1).raw) < ONE_DEGREE) =>
        /\ Ago(0).cur = Ago(0).pre
        /\ Ago(0).tel = Ago(0).telBefore
        /\ ~Ago(0).draw /\ ~Ago(0).push

\* C2 amended: the same, for every s1 that its tick recorded as currentTemp
\* (s1 was ingested as significant, not dropped) and that is not 0.
C2_CloseToRecordedDropped ==
    (/\ Len(hist) >= 2 /\ Abs(Ago(0).raw - Ago(1).raw) < ONE_DEGREE
     /\ Ago(1).cur = Ago(1).raw /\ Ago(1).raw # 0) =>
        /\ Ago(0).cur = Ago(0).pre
        /\ Ago(0).tel = Ago(0).telBefore
        /\ ~Ago(0).draw /\ ~Ago(0).push

\* C2 witness: 330.0 C was recorded and 330.5 C, ingested next, was dropped
C2_Witness ==
    /\ Len(hist) >= 2
    /\ Ago(1).raw = 33000 /\ Ago(1).push /\ Ago(1).draw
    /\ Ago(0).raw = 33050 /\ ~Ago(0).push /\ state.currentTemp = 33000

\* the scenario of C3: from currentTemp = 0, Celsius, target 338, tolerance 5,
\* monitoring on, the samples 330, 332, 345 in three consecutive ticks
C3_Scenario ==
    /\ Len(hist) >= 3
    /\ Ago(2).pre = 0
    /\ Ago(2).raw = 33000 /\ Ago(1).raw = 33200 /\ Ago(0).raw = 34500
    /\ \A k \in 0..2 : /\ Ago(k).mon /\ Ago(k).celsius
                       /\ Ago(k).tgt = 33800 /\ Ago(k).tol = 500

\* C3 as stated: the scenario produces Success ("Monitoring") after 330, no
\* status or currentTemp update for 332, Warning after 345.
C3_SuccessNoneWarning ==
    C3_Scenario =>
        /\ Ago(2).msg = "Monitoring" /\ Ago(2).col = "COLOR_SUCCESS"
        /\ Ago(1).cur = Ago(1).pre /\ ~Ago(1).push
        /\ Ago(1).msg = Ago(2).msg /\ Ago(1).col = Ago(2).col
        /\ Ago(0).msg = "Temperature Out of Range!" /\ Ago(0).col = "COLOR_WARNING"

\* C3 amended: the scenario produces Warning ("Temperature Out of Range!")
\* after 330 (|330 - 338| = 8 > 5), a currentTemp update to 332 with the status
\* still Warning after 332 (|332 - 330| = 2 >= 1.0 is significant and
\* |332 - 338| = 6 > 5), and Warning after 345.
C3_WarningThroughout ==
    C3_Scenario =>
        /\ Ago(2).cur = 33000 /\ Ago(1).cur = 33200 /\ Ago(0).cur = 34500
        /\ \A k \in 0..2 : /\ Ago(k).push /\ Ago(k).upd
                           /\ Ago(k).msg = "Temperature Out of Range!"
                           /\ Ago(k).col = "COLOR_WARNING"
        /\ state.currentTemp = 34500
        /\ state.statusMessage = "Temperature Out of Range!"

\* C3 witness: the three ticks of the scenario have run
C3_Witness == C3_Scenario /\ state.isMonitoring /\ temperature = ToFahrenheit(34500)

----------------------------------------------------------------------------
(* Emissivity workflow: specification and claims *)

\* stored emissivities: none, 0.5 and 1.05 (out of range), and the values the
\* program itself stores one step inside the limits (0.87f - 21 steps, 0.87f +
\* 12 steps)
EmisStores ==
    {EmptyStore} \cup {WithEmissivity(EmptyStore, e) :
                          e \in {8388608, 17616076, 11072966, 16609442}}

EmisTaps ==
    {NoTouch, Touch("pressed", SettingsPoint), Touch("released", SettingsPoint),
     Touch("pressed", ItemPoint(3)), Touch("released", ItemPoint(3))}

\* in the modal: "+", "-", Done / Restart, Cancel
ModalPresses == Presses({ItemPoint(2), ItemPoint(5), MonitorPoint, SettingsPoint})

NextEmis ==
    \/ \E t \in EmisTaps : Loop(t, 2000, NoBattery, 0, EmisOps)
    \/ \E t \in EmisTaps : LoopEnter(t, EmisOps)
    \/ \E t \in ModalPresses : AdjustStep(t, EmisOps)
    \/ \E t \in ModalPresses : AdjustDoneConfirm(t)
    \/ \E t \in ModalPresses : AdjustDoneReturn(t, 2000, NoBattery, 0)
    \/ \E t \in ModalPresses : WaitRestart(t)
    \/ \E t \in ModalPresses : WaitCancel(t, 2000, NoBattery, 0)
    \/ Watchdog
    \/ Setup

SpecEmis == InitOver(EmisStores) /\ [][NextEmis]_vars

\* the persisted emissivity as load() reads it (a missing key is its default)
StoredEmissivity(st) == PrefGet(st, "emissivity", DEFAULT_EMISSIVITY)

\* C5: across every sequence of +, -, Done, Restart and Cancel presses,
\* Settings.emissivity and the persisted emissivity change only on the
\* confirmed-Restart transition; a workflow that ends with Cancel, or with Done
\* without a change, returns with both equal to their values when the modal
\* was opened, although the menu handler saves the record on return.
C5_EmissivityOnlyOnRestart ==
    [][/\ (\/ settings'.emissivity # settings.emissivity
           \/ StoredEmissivity(store') # StoredEmissivity(store)) =>
             (pc = "waiting" /\ pc' = "restart")
       /\ (pc \in {"adjusting", "waiting"} /\ pc' = "loop") =>
             /\ settings'.emissivity = modal.orig
             /\ StoredEmissivity(store') = modal.stored
             /\ store'.emissivity = {modal.orig}
             /\ saves' >= 1]_vars

\* C5 witness: a changed pending value was cancelled and the handler saved
C5_Witness ==
    /\ last = "cancel" /\ modal.temp # modal.orig /\ saves = 1
    /\ settings.emissivity = modal.orig /\ store.emissivity = {modal.orig}

\* C8: after Cancel in the confirmation-pending sub-state the active screen is
\* Main (settingsMenu.isOpen is false and currentScreen is MAIN) when control
\* returns to the top-level loop.
C8_CancelReturnsToMain ==
    last = "cancel" => (~settingsMenu.isOpen /\ state.currentScreen = "MAIN")

\* C9: when Done is pressed, the confirmation-pending sub-state is entered if
\* and only if the pending value differs from the value Settings.emissivity
\* had when the modal was opened, for every opening value.
C9_ConfirmIffDiffers ==
    last \in {"done-confirm", "done-return"} =>
        ((last = "done-confirm") <=> (modal.temp # modal.orig))

\* C10: on the Restart-confirmed transition the pending emissivity is written
\* to Settings.emissivity and to the store before the restart, the restart is
\* terminal (the only step after it is the next run's setup, on the store as
\* left), and the next run's load() yields the new emissivity.
C10_RestartPersistsAndEnds ==
    [][/\ (pc' = "restart" /\ pc # "restart") =>
             /\ pc = "waiting"
             /\ settings'.emissivity = modal.temp
             /\ store' = Save(settings')
             /\ store'.emissivity = {modal.temp}
       /\ (pc = "restart") =>
             /\ last' = "setup" /\ pc' = "loop"
             /\ store' = store
             /\ settings' = Load(store)
             /\ settings'.emissivity = modal.temp
             /\ state' = InitialState /\ settingsMenu' = InitialMenu
             /\ lastPressedButton' = <<>> /\ ~touchProcessed']_vars

\* C10 witness: a changed emissivity was confirmed and the run has ended
C10_Witness ==
    /\ pc = "restart" /\ last = "restart" /\ modal.temp # modal.orig
    /\ settings.emissivity = modal.temp /\ store.emissivity = {modal.temp}

----------------------------------------------------------------------------
(* Screen transitions and the footer buttons, checked under Spec *)

\* the armed button is one of the given labels and the sample releases it
\* inside its bounds
ReleasedInside(labels, t) ==
    /\ lastPressedButton # <<>>
    /\ lastPressedButton[1].label \in labels
    /\ t.kind = "released"
    /\ Contains(lastPressedButton[1], t.x, t.y)

\* an accepted press in the footer strip on the given button
PressedOn(b, t) ==
    /\ ~touchProcessed /\ t.kind = "pressed"
    /\ t.y >= footerY /\ Contains(b, t.x, t.y)

\* C11: an accepted press on the Settings/Back footer button arms it, and its
\* release inside the button's bounds switches Main -> SettingsMenu when the
\* menu was closed and SettingsMenu -> Main when it was open; within a run the
\* active screen changes in no other step (no press, no release elsewhere, no
\* menu item, no step of the emissivity modal).
C11_ScreenSwitchOnlyByFooterButton ==
    [][/\ (pc = "loop" /\ PressedOn(settingsBtn(settingsMenu.isOpen), sample')) =>
             /\ lastPressedButton' # <<>>
             /\ lastPressedButton'[1].label =
                   (IF settingsMenu.isOpen THEN "Back" ELSE "Settings")
       /\ (pc = "loop" /\ ReleasedInside({"Settings", "Back"}, sample')) =>
             /\ lastPressedButton[1].label =
                   (IF settingsMenu.isOpen THEN "Back" ELSE "Settings")
             /\ ScreenOf(settingsMenu', state') =
                   (IF settingsMenu.isOpen THEN <<FALSE, "MAIN">>
                                           ELSE <<TRUE, "SETTINGS">>)
       /\ (last' # "setup"
            /\ ScreenOf(settingsMenu', state') # ScreenOf(settingsMenu, state)) =>
             /\ pc = "loop" /\ pc' = "loop"
             /\ ReleasedInside({"Settings", "Back"}, sample')]_vars

\* C11 witness: the menu was opened and has been closed again by a release of
\* the armed Back button
C11_Witness ==
    /\ last = "loop" /\ armed # <<>> /\ armed[1].label = "Back"
    /\ sample = Touch("released", SettingsPoint)
    /\ ScreenOf(settingsMenu, state) = <<FALSE, "MAIN">>

\* C12: the Back-button release that takes the screen from SettingsMenu to
\* Main saves the full settings record in that step.
C12_BackSaves ==
    [][(pc = "loop" /\ settingsMenu.isOpen /\ ~settingsMenu'.isOpen
         /\ ReleasedInside({"Back"}, sample')) =>
          /\ saves' >= 1
          /\ store' = Save(settings')]_vars

\* C13: on the Main screen an accepted press on the Monitor/Stop button arms it
\* without changing isMonitoring, and its release inside the button flips
\* isMonitoring once, leaving the active screen and every Settings field
\* unchanged; while the settings menu is open no step of the run changes
\* isMonitoring.
C13_MonitorToggle ==
    [][/\ (pc = "loop" /\ ~settingsMenu.isOpen
            /\ PressedOn(monitorBtn(state.isMonitoring), sample')) =>
             /\ lastPressedButton' # <<>>
             /\ lastPressedButton'[1].label =
                   (IF state.isMonitoring THEN "Stop" ELSE "Monitor")
       /\ (pc = "loop" /\ sample'.kind # "released") =>
             state'.isMonitoring = state.isMonitoring
       /\ (pc = "loop" /\ ReleasedInside({"Monitor", "Stop"}, sample')) =>
             /\ ~settingsMenu.isOpen
             /\ state'.isMonitoring = ~state.isMonitoring
             /\ ScreenOf(settingsMenu', state') = ScreenOf(settingsMenu, state)
             /\ settings' = settings /\ store' = store
             /\ lastPressedButton' = <<>>
       /\ (settingsMenu.isOpen /\ last' # "setup") =>
             state'.isMonitoring = state.isMonitoring]_vars

\* C13 witness: monitoring was switched on by a press and release of Monitor,
\* and a second press and release of (now) Stop has switched it off again
C13_Witness ==
    /\ last = "loop" /\ armed # <<>> /\ armed[1].label = "Stop"
    /\ sample = Touch("released", MonitorPoint)
    /\ ~state.isMonitoring /\ ~settingsMenu.isOpen

\* C14: whenever no button is armed, a "pressed" sample that hits a live
\* footer button arms that button (also right after a press-release cycle that
\* hit a menu item or no button, with no "none" sample in between).
C14_PressArmsWhenNoneArmed ==
    [][(/\ pc = "loop" /\ lastPressedButton = <<>>
        /\ sample'.kind = "pressed"
        /\ PressedFooterButton(sample'.x, sample'.y, Machine) # <<>>) =>
          lastPressedButton' # <<>>]_vars

----------------------------------------------------------------------------
(* Menu adjustments: specifications and claims *)

\* open and close the menu, and touch the given items with the given kinds
ItemTaps(items, kinds) ==
    {NoTouch, Touch("pressed", SettingsPoint), Touch("released", SettingsPoint)}
      \cup {Touch(k, ItemPoint(i)) : k \in kinds, i \in items}

\* the step applies the given menu item (an accepted press on it)
Applies(item, t) ==
    /\ pc = "loop" /\ Activates(t, Machine) /\ TouchedItem(t.y) = item

NextBright == \E t \in ItemTaps({2}, {"pressed", "released"}) : Loop(t, 2000, NoBattery, 0, BrightOps)

SpecBright == InitOver({EmptyStore}) /\ [][NextBright]_vars

\* C15: a brightness adjustment maps brightness to (brightness + 64) mod 256
\* and hands it to the display; from the default 128 the values follow
\* 128 -> 192 -> 0 -> 64 -> 128, and no other value is ever reached.
C15_BrightnessCycle ==
    [][/\ (Applies(2, sample') \/ settings'.brightness # settings.brightness) =>
             /\ Applies(2, sample')
             /\ settings'.brightness = (settings.brightness + 64) % 256
             /\ settings'.brightness =
                   (128 :> 192 @@ 192 :> 0 @@ 0 :> 64 @@ 64 :> 128)[settings.brightness]
             /\ displayBrightness' = settings'.brightness
             /\ store'.brightness = {settings'.brightness}
       /\ settings'.brightness \in {128, 192, 0, 64}]_vars

\* C15 witness: four adjustments have brought the brightness back to 128
C15_Witness ==
    /\ last = "loop" /\ sample = Touch("pressed", ItemPoint(2))
    /\ ops = 4 /\ settings.brightness = 128 /\ store.brightness = {128}

\* C16: the brightness applied to the display is never below 25.
C16_BrightnessAtLeast25 == displayBrightness >= 25

\* unit toggle and target adjustment, from the default target and from a
\* stored 398 C
NextTarget == \E t \in ItemTaps({0, 4}, {"pressed"}) : Loop(t, 2000, NoBattery, 0, TargetOps)

SpecTarget ==
    InitOver({EmptyStore, WithTarget(EmptyStore, 39800, 500)}) /\ [][NextTarget]_vars

\* C17: one target adjustment adds 5 (Celsius mode) or 10 (Fahrenheit mode)
\* and, for a target not above MAX_TEMP_C = 400, yields MIN_TEMP_C = -20 exactly
\* when the stepped value exceeds 400 and the stepped value otherwise; the
\* target changes in no other step and stays within [-20, 400].
C17_TargetWraps ==
    [][/\ (Applies(4, sample') \/ settings'.targetTemp # settings.targetTemp) =>
             LET stepped == settings.targetTemp
                              + (IF settings.useCelsius THEN 500 ELSE 1000)
             IN /\ Applies(4, sample')
                /\ settings.targetTemp <= 40000
                /\ settings'.targetTemp <= 40000
                /\ settings'.targetTemp = (IF stepped > 40000 THEN -2000 ELSE stepped)
                /\ store'.targetTemp = {settings'.targetTemp}
       /\ settings'.targetTemp >= -2000 /\ settings'.targetTemp <= 40000]_vars

\* C17 witness: an adjustment at 400 C has wrapped the target to -20 C
C17_Witness ==
    /\ last = "loop" /\ sample = Touch("pressed", ItemPoint(4))
    /\ settings.targetTemp = -2000 /\ store.targetTemp = {-2000}
    /\ settings.useCelsius /\ ops >= 45

\* unit toggle and tolerance adjustment from the default tolerance
NextTolerance ==
    \E t \in ItemTaps({0, 5}, {"pressed"}) : Loop(t, 2000, NoBattery, 0, ToleranceOps)

SpecTolerance == InitOver({EmptyStore}) /\ [][NextTolerance]_vars

\* C18: one tolerance adjustment adds 0.5 (Celsius mode) or 1.0 (Fahrenheit
\* mode) and resets the tolerance to 1.0 when the stepped value exceeds 20.0;
\* the tolerance changes in no other step (not on a unit toggle) and stays
\* within [1.0, 20.0].
C18_ToleranceWraps ==
    [][/\ (Applies(5, sample') \/ settings'.tempTolerance # settings.tempTolerance) =>
             LET stepped == settings.tempTolerance
                              + (IF settings.useCelsius THEN 50 ELSE 100)
             IN /\ Applies(5, sample')
                /\ settings'.tempTolerance = (IF stepped > 2000 THEN 100 ELSE stepped)
                /\ store'.tolerance = {settings'.tempTolerance}
       /\ settings'.tempTolerance >= 100 /\ settings'.tempTolerance <= 2000]_vars

\* C18 witness: an adjustment has reset the tolerance to 1.0
C18_Witness ==
    /\ last = "loop" /\ sample = Touch("pressed", ItemPoint(5))
    /\ settings.tempTolerance = 100 /\ store.tolerance = {100}

----------------------------------------------------------------------------
(* Stored values: specification and claims *)

\* every store in which each key is missing or holds a value other than its
\* default: Fahrenheit, sound off, brightness -100, emissivity 0.5, target
\* 398 C, tolerance 19.5
StoredStores ==
    {[useCelsius |-> c, soundEnabled |-> s, brightness |-> b, emissivity |-> e,
      targetTemp |-> g, tolerance |-> l] :
        c \in {{}, {FALSE}}, s \in {{}, {FALSE}}, b \in {{}, {-100}},
        e \in {{}, {8388608}}, g \in {{}, {39800}}, l \in {{}, {1950}}}

\* open the menu, adjust the brightness, enter the emissivity modal; the
\* watchdog ends the run there and setup() loads the store again
NextStored ==
    \/ \E t \in ItemTaps({2}, {"pressed"}) : Loop(t, 2000, NoBattery, 0, StoredOps)
    \/ \E t \in ItemTaps({3}, {"pressed"}) : LoopEnter(t, StoredOps)
    \/ Watchdog
    \/ Setup

SpecStored == InitOver(StoredStores) /\ [][NextStored]_vars

\* C19: after a brightness adjustment the brightness lies within [0, 255],
\* whatever value it had before, a value loaded from the store included.
C19_BrightnessInRange ==
    [][Applies(2, sample') =>
          (settings'.brightness >= 0 /\ settings'.brightness <= 255)]_vars

\* C20: after load() every field whose key is missing has its default
\* (useCelsius true, soundEnabled true, brightness 128, emissivity 0.87f,
\* targetTemp 180.0, tempTolerance 5.0), every field whose key is present has
\* the stored value, and from the empty store all six fields are the defaults.
C20_LoadDefaults ==
    last = "setup" =>
        /\ store.useCelsius \in {{}, {settings.useCelsius}}
        /\ store.useCelsius = {} => settings.useCelsius = TRUE
        /\ store.soundEnabled \in {{}, {settings.soundEnabled}}
        /\ store.soundEnabled = {} => settings.soundEnabled = TRUE
        /\ store.brightness \in {{}, {settings.brightness}}
        /\ store.brightness = {} => settings.brightness = 128
        /\ store.emissivity \in {{}, {settings.emissivity}}
        /\ store.emissivity = {} => settings.emissivity = 14596178
        /\ store.targetTemp \in {{}, {settings.targetTemp}}
        /\ store.targetTemp = {} => settings.targetTemp = 18000
        /\ store.tolerance \in {{}, {settings.tempTolerance}}
        /\ store.tolerance = {} => settings.tempTolerance = 500
        /\ store = EmptyStore =>
              settings = [useCelsius |-> TRUE, soundEnabled |-> TRUE,
                          brightness |-> 128, emissivity |-> 14596178,
                          targetTemp |-> 18000, tempTolerance |-> 500]

\* C20 witness: setup() of a second run has loaded a store that holds the
\* emissivity and the tolerance only
C20_Witness ==
    /\ last = "setup" /\ ops = 1
    /\ store = [EmptyStore EXCEPT !.emissivity = {8388608}, !.tolerance = {1950}]
    /\ settings = [useCelsius |-> TRUE, soundEnabled |-> TRUE, brightness |-> 128,
                   emissivity |-> 8388608, targetTemp |-> 18000,
                   tempTolerance |-> 1950]

----------------------------------------------------------------------------
(* Monitoring status: specification and claims *)

\* 0 C, 333 C and 343 C (on the boundary of 338 +- 5), 333.5 C (not
\* significant after 333 C), 344 C (outside the band)
MonitorRaws == {0, 33300, 33350, 34300, 34400}

NextMonitor ==
    \E t \in MonitorTaps, r \in MonitorRaws : Loop(t, r, NoBattery, MonitorDepth, 0)

SpecMonitor == InitOver({ScenarioStore}) /\ [][NextMonitor]_vars

\* C21: every significant sample ingested while isMonitoring is true sets the
\* status to "Temperature Out of Range!" / Warning exactly when
\* |currentTemp - targetTemp| > tempTolerance and to "Monitoring" / Success
\* otherwise (the boundary |currentTemp - targetTemp| = tempTolerance gives
\* Success); a significant sample ingested while isMonitoring is false leaves
\* the status as it was.
C21_StatusByBand ==
    Len(hist) >= 1 =>
        LET h == Ago(0)
            diff == Abs(h.cur - h.tgt)
        IN h.push =>
             /\ h.cur = h.raw
             /\ (h.mon /\ diff > h.tol) =>
                   (h.msg = "Temperature Out of Range!" /\ h.col = "COLOR_WARNING")
             /\ (h.mon /\ diff <= h.tol) =>
                   (h.msg = "Monitoring" /\ h.col = "COLOR_SUCCESS")
             /\ ~h.mon => (h.msg = h.msgBefore /\ h.col = h.colBefore)
             /\ state.statusMessage = h.msg /\ state.statusColor = h.col

\* C21 witness: while monitoring, 343 C was ingested after a Warning, on the
\* boundary of the band 338 +- 5, and the status is Success
C21_Witness ==
    /\ Len(hist) >= 1 /\ Ago(0).push /\ Ago(0).mon
    /\ Ago(0).cur = 34300 /\ Ago(0).tgt = 33800 /\ Ago(0).tol = 500
    /\ Ago(0).msgBefore = "Temperature Out of Range!"
    /\ state.statusMessage = "Monitoring" /\ state.statusColor = "COLOR_SUCCESS"

----------------------------------------------------------------------------
(* The tick as a whole: specification and claims *)

\* 333 C (inside the band 338 +- 5) and 344 C (outside it)
TickRaws == {33300, 34400}

\* Monitor / Stop, Settings / Back, the sound item and the emissivity item
TickTaps ==
    {NoTouch} \cup {Touch(k, p) : k \in {"pressed", "released"},
                                   p \in {MonitorPoint, SettingsPoint}}
      \cup Presses({ItemPoint(1), ItemPoint(3)})

\* the battery check is not due, or due on a low battery
TickBatteries == {NoBattery, [due |-> TRUE, level |-> 5, charging |-> FALSE]}

\* the documented test target and tolerance, with the sound on and off
TickStores == {ScenarioStore, [ScenarioStore EXCEPT !.soundEnabled = {FALSE}]}

NextTick ==
    \/ \E t \in TickTaps, r \in TickRaws, b \in TickBatteries :
          Loop(t, r, b, 0, TickOps)
    \/ \E t \in TickTaps : LoopEnter(t, TickOps)
    \/ \E t \in ModalPresses : AdjustStep(t, TickOps)
    \/ \E t \in ModalPresses : AdjustDoneConfirm(t)
    \/ \E t \in ModalPresses, r \in TickRaws, b \in TickBatteries :
          AdjustDoneReturn(t, r, b, 0)
    \/ \E t \in ModalPresses : WaitRestart(t)
    \/ \E t \in ModalPresses, r \in TickRaws, b \in TickBatteries :
          WaitCancel(t, r, b, 0)
    \/ Watchdog
    \/ Setup

SpecTick == InitOver(TickStores) /\ [][NextTick]_vars

\* the step completes an iteration of loop()
TickDone(l) == l \in {"loop", "done-return", "cancel"}

\* C22: after every completed tick, from the first one on, the telemetry
\* property is the Fahrenheit conversion currentTemp * 9/5 + 32 of currentTemp,
\* with monitoring on or off and on either screen; currentTemp changes only in
\* a completed tick (or is reset by a restart).
C22_TelemetryFollowsCurrentTemp ==
    [][/\ TickDone(last') => 5 * temperature' = 9 * state'.currentTemp + 16000
       /\ state'.currentTemp # state.currentTemp =>
             (TickDone(last') \/ last' = "setup")]_vars

\* C22 witness: 344 C was ingested with monitoring off and the settings menu
\* open, and the telemetry value is 651.2 F
C22_Witness ==
    /\ last = "loop" /\ settingsMenu.isOpen /\ ~state.isMonitoring
    /\ state.currentTemp = 34400 /\ temperature = 65120

\* C23: no tone is requested while soundEnabled is false: every tone of a step
\* is requested with soundEnabled true, a step that leaves soundEnabled false
\* requests none, and the sound item cues exactly when it turns the sound on.
C23_NoToneWhenSoundOff ==
    [][/\ \A i \in 1..Len(tones') : tones'[i].snd
       /\ tones' # <<>> => settings'.soundEnabled
       /\ Applies(1, sample') => ((tones' # <<>>) <=> settings'.soundEnabled)]_vars

\* C23 witness: with the sound off, the modal's + (or -) changed the pending
\* emissivity and no tone was requested
C23_Witness ==
    /\ last = "step" /\ ~settings.soundEnabled /\ modal.changed /\ tones = <<>>

\* C24: the emissivity modal and its confirmation sub-loop end only by an
\* operator press of Done, Restart or Cancel.
C24_ModalEndsByOperator ==
    [][(pc \in {"adjusting", "waiting"} /\ pc' # pc) =>
          last' \in {"done-confirm", "done-return", "restart", "cancel"}]_vars

\* C26: the step that opens the emissivity modal and every step inside the
\* modal and its confirmation sub-loop leave currentTemp, the telemetry
\* property, statusMessage / statusColor, isMonitoring and lowBatteryWarning
\* unchanged.
C26_ModalSuspendsTick ==
    [][pc' \in {"adjusting", "waiting", "restart", "panic"} =>
          /\ state'.currentTemp = state.currentTemp
          /\ temperature' = temperature
          /\ state'.statusMessage = state.statusMessage
          /\ state'.statusColor = state.statusColor
          /\ state'.isMonitoring = state.isMonitoring
          /\ state'.lowBatteryWarning = state.lowBatteryWarning]_vars

\* C26 witness: the confirmation sub-loop is active while monitoring is on,
\* 344 C is recorded and the low-battery warning is set
C26_Witness ==
    /\ pc = "waiting" /\ modal.changed
    /\ state.isMonitoring /\ state.currentTemp = 34400 /\ temperature = 65120
    /\ state.lowBatteryWarning /\ state.statusMessage = "Low Battery!"

----------------------------------------------------------------------------
(* Dispatcher and menu invariants, checked under Spec *)

\* C25: while a button is armed, "held" and "pressed" samples change neither
\* the armed button nor isMonitoring, the active screen or any Settings field;
\* a "held" sample never changes anything, and after an accepted press no
\* sample before the next "none" (or the release of an armed button) applies a
\* menu item, so a continuous touch on an item applies it exactly once.
C25_NoRepeatFire ==
    [][/\ (pc = "loop" /\ lastPressedButton # <<>>
            /\ sample'.kind \in {"held", "pressed"}) =>
             /\ lastPressedButton' = lastPressedButton
             /\ touchProcessed'
             /\ state'.isMonitoring = state.isMonitoring
             /\ ScreenOf(settingsMenu', state') = ScreenOf(settingsMenu, state)
             /\ settings' = settings /\ pc' = "loop"
       /\ (pc = "loop" /\ sample'.kind = "held") =>
             /\ settings' = settings /\ store' = store /\ saves' = 0
             /\ settingsMenu' = settingsMenu /\ pc' = "loop" /\ ops' = ops
             /\ lastPressedButton' = lastPressedButton
             /\ touchProcessed' = touchProcessed
       /\ (pc = "loop" /\ touchProcessed /\ sample'.kind # "none") =>
             /\ settings' = settings /\ saves' = 0
             /\ pc' = "loop" /\ ops' = ops]_vars

\* C25 witness: the unit item was pressed and is still held: it was applied
\* once
C25_Witness ==
    /\ last = "loop" /\ sample = Touch("held", ItemPoint(0))
    /\ settingsMenu.isOpen /\ touchProcessed /\ lastPressedButton = <<>>
    /\ ops = 1 /\ ~settings.useCelsius /\ saves = 0

\* C27: settingsMenu.selectedItem is within [0, 5] in every state, and an
\* accepted press in the menu area whose index is not one of the six items (the
\* lower edge of the area) selects and applies nothing.
C27_SelectedItemInRange ==
    [][/\ settingsMenu'.selectedItem \in 0..5
       /\ (/\ pc = "loop" /\ sample'.kind = "pressed" /\ ~touchProcessed
           /\ settingsMenu.isOpen /\ sample'.y < footerY
           /\ InMenuArea(sample'.x, sample'.y)
           /\ (sample'.y - 40) \div 25 \notin 0..5) =>
             /\ settingsMenu' = settingsMenu
             /\ settings' = settings /\ store' = store /\ saves' = 0
             /\ pc' = "loop"]_vars

\* C27 witness: a press on the lower edge of the menu area (y = 190) was
\* accepted with the menu open and nothing was selected or saved
C27_Witness ==
    /\ last = "loop" /\ sample = Touch("pressed", ItemPoint(6))
    /\ settingsMenu.isOpen /\ touchProcessed /\ saves = 0
    /\ settingsMenu.selectedItem = 5 /\ ops = 1

\* C28: at every tick boundary each persisted value, a missing key read as
\* its default, equals the in-memory Settings field; a step that changes a
\* Settings field saves the record.
C28_StoreMatchesSettings ==
    [][/\ pc' \in {"loop", "restart"} =>
             /\ PrefGet(store', "useCelsius", TRUE) = settings'.useCelsius
             /\ PrefGet(store', "soundEnabled", TRUE) = settings'.soundEnabled
             /\ PrefGet(store', "brightness", 128) = settings'.brightness
             /\ PrefGet(store', "emissivity", 14596178) = settings'.emissivity
             /\ PrefGet(store', "targetTemp", 18000) = settings'.targetTemp
             /\ PrefGet(store', "tolerance", 500) = settings'.tempTolerance
       /\ settings' # settings => (saves' >= 1 /\ store' = Save(settings'))]_vars

\* C28 witness: the target was raised to 185 C in the last tick and the store
\* holds the whole record
C28_Witness ==
    /\ last = "loop" /\ pc = "loop" /\ sample = Touch("pressed", ItemPoint(4))
    /\ settings.targetTemp = 18500 /\ saves = 1 /\ store = Save(settings)

\* C29: in every state currentScreen is SETTINGS exactly when
\* settingsMenu.isOpen is true, and no touch that handleTouch passes to
\* handleSettingsTouch (a press above the footer with the menu open) closes
\* the menu.
C29_ScreenMatchesMenu ==
    [][/\ (state'.currentScreen = "SETTINGS") <=> settingsMenu'.isOpen
       /\ state'.currentScreen \in {"MAIN", "SETTINGS"}
       /\ (/\ pc = "loop" /\ sample'.kind = "pressed" /\ ~touchProcessed
           /\ settingsMenu.isOpen /\ sample'.y < footerY) =>
             /\ ~(sample'.y > DisplayHeight - FOOTER_HEIGHT)
             /\ settingsMenu'.isOpen]_vars

\* C29 witness: the press closest to the footer that reaches
\* handleSettingsTouch (y = 190) has left the menu open and the screen SETTINGS
C29_Witness ==
    /\ last = "loop" /\ sample = Touch("pressed", ItemPoint(6)) /\ ops = 0
    /\ touchProcessed /\ settingsMenu.isOpen /\ state.currentScreen = "SETTINGS"

\* C30: at every handleTouch boundary a non-null lastPressedButton implies
\* touchProcessed; a copy is allocated only by a press accepted while
\* lastPressedButton is null, an armed copy is never replaced by another, and
\* it is released by the next "released" or "none" sample.
C30_ArmedImpliesProcessed ==
    [][/\ lastPressedButton' # <<>> => touchProcessed'
       /\ (pc = "loop" /\ lastPressedButton' # <<>>
            /\ lastPressedButton' # lastPressedButton) =>
             /\ lastPressedButton = <<>> /\ ~touchProcessed
             /\ sample'.kind = "pressed"
       /\ (pc = "loop" /\ lastPressedButton # <<>>
            /\ sample'.kind \in {"released", "none"}) =>
             (lastPressedButton' = <<>> /\ ~touchProcessed')
       /\ (lastPressedButton # <<>> /\ lastPressedButton' = <<>>) =>
             (pc = "loop" /\ sample'.kind \in {"released", "none"})]_vars

\* C30 witness: the armed Settings button was released over the gap between
\* the footer buttons and its copy is gone
C30_Witness ==
    /\ last = "loop" /\ armed # <<>> /\ armed[1].label = "Settings"
    /\ sample = Touch("released", GapPoint)
    /\ lastPressedButton = <<>> /\ ~touchProcessed /\ ~settingsMenu.isOpen

----------------------------------------------------------------------------
(* Status line: specification and claim *)

\* 333 C (inside the band 338 +- 5), 333.5 C (not significant after 333 C)
\* and 344 C (outside the band)
StatusRaws == {33300, 33350, 34400}

\* Monitor / Stop taps, every sample, every battery report
NextStatus ==
    \E t \in MonitorTaps, r \in StatusRaws, b \in Batteries :
        Loop(t, r, b, StatusDepth, 0)

SpecStatus == InitOver({ScenarioStore}) /\ [][NextStatus]_vars

\* C31: statusMessage / statusColor change only in a tick that ingests a
\* significant sample while isMonitoring is true or whose battery check raises
\* the low-battery warning; the tick in which the Monitor/Stop button is
\* released flips isMonitoring and, apart from those two causes, leaves the
\* status as it was (a "Temperature Out of Range!" status stays after Stop).
C31_ToggleKeepsStatus ==
    [][LET changed == <<state'.statusMessage, state'.statusColor>>
                         # <<state.statusMessage, state.statusColor>>
           lowBattery == /\ state'.lowBatteryWarning /\ ~state.lowBatteryWarning
                         /\ state'.statusMessage = "Low Battery!"
                         /\ state'.statusColor = "COLOR_WARNING"
           ingested == /\ TickDone(last') /\ Len(hist') >= 1
                       /\ hist'[Len(hist')].push /\ hist'[Len(hist')].mon
       IN /\ (changed /\ last' # "setup") => (ingested \/ lowBattery)
          /\ (pc = "loop" /\ ReleasedInside({"Monitor", "Stop"}, sample')) =>
                /\ state'.isMonitoring = ~state.isMonitoring
                /\ (changed /\ ~lowBattery) =>
                      (state'.isMonitoring /\ hist'[Len(hist')].push)
          /\ (pc = "loop" /\ ReleasedInside({"Stop"}, sample') /\ ~lowBattery) =>
                ~changed]_vars

\* C31 witness: Stop was released in a tick that ingested a significant
\* sample inside the band, and the warning set while monitoring is still there
C31_Witness ==
    /\ last = "loop" /\ armed # <<>> /\ armed[1].label = "Stop"
    /\ sample = Touch("released", MonitorPoint) /\ ~state.isMonitoring
    /\ Len(hist) >= 1 /\ Ago(0).push /\ Ago(0).cur = 33300
    /\ state.statusMessage = "Temperature Out of Range!"
    /\ state.statusColor = "COLOR_WARNING"

====
